---- MODULE Spec2Model ----
(***************************************************************************)
(* A model of src/email_crawler.py: EmailCrawler.search_and_crawl, the     *)
(* paginated google_search it starts with, and the crawl_page tasks it     *)
(* runs on a ThreadPoolExecutor.  The main thread and every crawl_page     *)
(* task are processes; a task's steps are cut at its accesses to the       *)
(* state the tasks share (found_emails, sites_visited, debug_info).        *)
(***************************************************************************)
EXTENDS Integers, Sequences, FiniteSets, TLC

(***************************************************************************)
(* Bounds of the model.  As written the model has 50,062 states.  With     *)
(* both bounds raised by one (three seeds, three tasks) it has 16,773,056, *)
(* and TLC finds the safety properties C11, C13, C14, C15 and C20 proved   *)
(* below to hold there too (two workers, about forty minutes); C1..C10     *)
(* were run at the raised bounds before seed_results was added (16,760,822 *)
(* states), and the liveness property C12 at the bounds as written only.   *)
(***************************************************************************)
\* the largest num_pages the caller passes
MaxPages == 2
\* the most result links the search pages carry in total
MaxSeeds == 2

\* ThreadPoolExecutor(max_workers=5)
max_workers == 5

(***************************************************************************)
(* The web the crawler runs against: three pages.  A page's content is a   *)
(* sequence of tokens: an e-mail address in the text, or an anchor with    *)
(* the URL its href resolves to ("mailto" for a non-http(s) target) and    *)
(* whether its href or text holds one of the contact keywords.             *)
(***************************************************************************)
URLs == {"a", "b", "c"}

None == "none"

Mail(e) == [kind |-> "email", val |-> e, keyword |-> FALSE]

Anchor(h, k) == [kind |-> "a", val |-> h, keyword |-> k]

PageText(u) ==
  CASE u = "a" -> << Mail("e1"), Anchor("b", TRUE), Anchor("c", TRUE),
                     Mail("e1"), Anchor("b", TRUE) >>
    [] u = "b" -> << Anchor("c", TRUE), Anchor("a", FALSE), Anchor("mailto", TRUE) >>
    [] u = "c" -> << Mail("e2"), Anchor("a", TRUE), Mail("e1") >>

\* the empty dict {}
EmptyMap == [u \in {} |-> {}]

\* extract_emails: the set of the matches of the pattern in the text
extract_emails(text) ==
  { text[k].val : k \in { j \in 1..Len(text) : text[j].kind = "email" } }

\* the test of find_contact_pages' loop: an anchor with a keyword in its
\* href or text whose resolved URL starts with http:// or https://
IsContactLink(tok) ==
  /\ tok.kind = "a"
  /\ tok.keyword
  /\ tok.val \in URLs

\* contact_links at the end of the loop: the full_url of every qualifying
\* anchor, in document order, repeats included
contact_links(text) ==
  LET hits == SelectSeq(text, IsContactLink)
  IN  [k \in 1..Len(hits) |-> hits[k].val]

\* the lists that hold each element of S once
Orderings(S) ==
  { s \in [1..Cardinality(S) -> S] : \A x \in S : \E k \in DOMAIN s : s[k] = x }

\* a find_contact_pages that returns contact_links as collected, repeats
\* included (the set() forgotten)
find_contact_pages_nodedup(text) ==
  { contact_links(text) }

\* find_contact_pages: list(set(contact_links)); the order of the list is
\* that of a hash set, so every order is a possible return value
find_contact_pages(text) ==
  LET links == contact_links(text)
  IN  Orderings({ links[k] : k \in DOMAIN links })

\* d[key] = value on a dict
DictSet(d, key, value) ==
  [x \in (DOMAIN d) \cup {key} |-> IF x = key THEN value ELSE d[x]]

\* PageDebugInfo(url=url): the default-constructed record
PageDebugInfo ==
  [ main_page_crawled |-> FALSE,
    emails_found |-> {},
    contact_pages_found |-> << >>,
    contact_pages_crawled |-> EmptyMap,
    errors |-> << >> ]

VARIABLES
  mainpc,                \* where the main thread is in search_and_crawl
  num_pages,             \* the argument of search_and_crawl
  i,                     \* google_search's loop index
  urls,                  \* google_search's urls, then search_and_crawl's
  result,                \* what search_and_crawl returned, once it has
  found_emails,          \* self.found_emails
  sites_visited,         \* self.sites_visited
  google_pages_crawled,  \* self.google_pages_crawled
  debug_mode,            \* self.debug_mode
  debug_info,            \* self.debug_info: url -> PageDebugInfo
  pc,                    \* per task: where crawl_page(urls[t]) is
  tmp,                   \* per task: the value read by sites_visited += 1
  todo,                  \* per task: contact_pages not yet iterated
  cur,                   \* per task: contact_url of the current iteration
  outcomes,              \* history: per URL, the fetch outcomes seen
  ok_fetches,            \* history: get_page_content calls that succeeded
  contact_fetches,       \* history: per URL, fetches as a contact page
  contact_merges,        \* history: per URL, merges as a contact page
  known,                 \* history: per task, found_emails' keys when it
                         \*   ran find_contact_pages
  fetched,               \* history: per task, the contact pages it fetched
  seed_results,          \* history: per task, the outcomes of its fetches of
                         \*   its seed page, in order
  page_requests,         \* history: search page requests executed
  failed_page,           \* history: index of the search page that failed
  build_failed           \* history: build(...) raised

vars == << mainpc, num_pages, i, urls, result, found_emails, sites_visited,
           google_pages_crawled, debug_mode, debug_info, pc, tmp, todo, cur,
           outcomes, ok_fetches, contact_fetches, contact_merges, known,
           fetched, seed_results, page_requests, failed_page, build_failed >>

searchVars == << num_pages, i, urls, google_pages_crawled, page_requests,
                 failed_page, build_failed >>

taskVars == << pc, tmp, todo, cur, known, fetched, seed_results >>

crawlVars == << found_emails, sites_visited, debug_info, outcomes,
                ok_fetches, contact_fetches, contact_merges >>

Tasks == 1..Len(pc)

\* EmailCrawler.__init__
Init ==
  /\ mainpc = "init"
  /\ num_pages = 0
  /\ i = 0
  /\ urls = << >>
  /\ result = EmptyMap
  /\ found_emails = EmptyMap
  /\ sites_visited = 0
  /\ google_pages_crawled = 0
  /\ debug_mode \in BOOLEAN
  /\ debug_info = EmptyMap
  /\ pc = << >>
  /\ tmp = << >>
  /\ todo = << >>
  /\ cur = << >>
  /\ outcomes = [u \in URLs |-> {}]
  /\ ok_fetches = 0
  /\ contact_fetches = [u \in URLs |-> 0]
  /\ contact_merges = [u \in URLs |-> 0]
  /\ known = << >>
  /\ fetched = << >>
  /\ seed_results = << >>
  /\ page_requests = 0
  /\ failed_page = -1
  /\ build_failed = FALSE

(***************************************************************************)
(* The main thread: search_and_crawl and the google_search it calls.  No   *)
(* task runs before the executor is entered, so a step here is a whole     *)
(* statement group of the one running thread.                              *)
(***************************************************************************)

\* what a request can fail with: HttpError, or any other exception
Failures == {"HttpError", "Exception"}

\* result['items'] of one search page: a non-empty list of links
ItemLists == UNION { [1..n -> URLs] : n \in 1..MaxSeeds }

\* the except clause of google_search: HttpError is caught and [] returned,
\* any other exception leaves google_search and search_and_crawl
SearchRaise(e) ==
  IF e = "HttpError"
    THEN /\ mainpc' = "searched"
         /\ urls' = << >>
    ELSE /\ mainpc' = "raised"
         /\ urls' = urls

\* search_and_crawl(query, n) is called; google_search builds the service
CallOk(n) ==
  /\ mainpc = "init"
  /\ num_pages' = n
  /\ mainpc' = "search"
  /\ UNCHANGED << i, urls, result, google_pages_crawled, page_requests,
                  failed_page, build_failed, debug_mode >>
  /\ UNCHANGED << taskVars, crawlVars >>

\* build(...) raises
CallBuildFails(n, e) ==
  /\ mainpc = "init"
  /\ num_pages' = n
  /\ build_failed' = TRUE
  /\ SearchRaise(e)
  /\ UNCHANGED << i, result, google_pages_crawled, page_requests,
                  failed_page, debug_mode >>
  /\ UNCHANGED << taskVars, crawlVars >>

\* a loop that counts a page only when it carries items
SearchPageCountsHits(items) ==
  /\ mainpc = "search"
  /\ i < num_pages
  /\ Len(urls) + Len(items) <= MaxSeeds
  /\ google_pages_crawled' =
       IF items # << >> THEN google_pages_crawled + 1 ELSE google_pages_crawled
  /\ page_requests' = page_requests + 1
  /\ urls' = urls \o items
  /\ i' = i + 1
  /\ UNCHANGED << mainpc, num_pages, result, failed_page, build_failed,
                  debug_mode >>
  /\ UNCHANGED << taskVars, crawlVars >>

\* one iteration of the loop whose request returns: with items (a non-empty
\* list) or without
SearchPage(items) ==
  /\ mainpc = "search"
  /\ i < num_pages
  /\ Len(urls) + Len(items) <= MaxSeeds
  /\ google_pages_crawled' = google_pages_crawled + 1
  /\ page_requests' = page_requests + 1
  /\ urls' = urls \o items
  /\ i' = i + 1
  /\ UNCHANGED << mainpc, num_pages, result, failed_page, build_failed,
                  debug_mode >>
  /\ UNCHANGED << taskVars, crawlVars >>

\* a loop that counts a page after its request, so not when it raises
SearchPageFailsUncounted(e) ==
  /\ mainpc = "search"
  /\ i < num_pages
  /\ page_requests' = page_requests + 1
  /\ failed_page' = i
  /\ SearchRaise(e)
  /\ UNCHANGED << i, num_pages, result, build_failed, debug_mode,
                  google_pages_crawled >>
  /\ UNCHANGED << taskVars, crawlVars >>

\* one iteration whose request raises
SearchPageFails(e) ==
  /\ mainpc = "search"
  /\ i < num_pages
  /\ google_pages_crawled' = google_pages_crawled + 1
  /\ page_requests' = page_requests + 1
  /\ failed_page' = i
  /\ SearchRaise(e)
  /\ UNCHANGED << i, num_pages, result, build_failed, debug_mode >>
  /\ UNCHANGED << taskVars, crawlVars >>

\* the loop is over: return urls
SearchReturn ==
  /\ mainpc = "search"
  /\ i >= num_pages
  /\ mainpc' = "searched"
  /\ UNCHANGED << num_pages, i, urls, result, google_pages_crawled,
                  page_requests, failed_page, build_failed, debug_mode >>
  /\ UNCHANGED << taskVars, crawlVars >>

\* if not urls: return {}
NoUrls ==
  /\ mainpc = "searched"
  /\ urls = << >>
  /\ mainpc' = "returned"
  /\ result' = EmptyMap
  /\ UNCHANGED << searchVars, debug_mode >>
  /\ UNCHANGED << taskVars, crawlVars >>

\* executor.map(self.crawl_page, urls): one task per url, all queued
Dispatch ==
  /\ mainpc = "searched"
  /\ urls # << >>
  /\ mainpc' = "crawl"
  /\ pc' = [t \in 1..Len(urls) |-> "queued"]
  /\ tmp' = [t \in 1..Len(urls) |-> 0]
  /\ todo' = [t \in 1..Len(urls) |-> << >>]
  /\ cur' = [t \in 1..Len(urls) |-> None]
  /\ known' = [t \in 1..Len(urls) |-> {}]
  /\ fetched' = [t \in 1..Len(urls) |-> {}]
  /\ seed_results' = [t \in 1..Len(urls) |-> << >>]
  /\ UNCHANGED << searchVars, result, debug_mode >>
  /\ UNCHANGED crawlVars

\* a wait for the first task only
JoinFirst ==
  pc[1] = "done"

\* the with block ends (shutdown(wait=True)) once every task has finished
Join ==
  \A t \in Tasks : pc[t] = "done"

\* a return that does not wait for the tasks
ReturnNoWait ==
  /\ mainpc = "crawl"
  /\ mainpc' = "returned"
  /\ result' = found_emails
  /\ UNCHANGED << searchVars, debug_mode >>
  /\ UNCHANGED << taskVars, crawlVars >>

\* search_and_crawl returns self.found_emails
Return ==
  /\ mainpc = "crawl"
  /\ Join
  /\ mainpc' = "returned"
  /\ result' = found_emails
  /\ UNCHANGED << searchVars, debug_mode >>
  /\ UNCHANGED << taskVars, crawlVars >>

(***************************************************************************)
(* The writes of crawl_page and get_page_content to the shared objects,    *)
(* as functions of the object's value.                                     *)
(***************************************************************************)

\* a merge without the test for an empty set
MergeEmailsAlways(fe, u, emails) ==
  DictSet(fe, u, emails)

\* if emails: self.found_emails[url] = emails
MergeEmails(fe, u, emails) ==
  IF emails # {} THEN DictSet(fe, u, emails) ELSE fe

\* a test against the wrong dict
AlreadyFoundWrongDict(c) ==
  c \in DOMAIN debug_info

\* if contact_url not in self.found_emails (negated)
AlreadyFound(c) ==
  c \in DOMAIN found_emails

\* self.sites_visited += 1, the store: the value loaded plus one
IncrementedValue(t) ==
  tmp[t] + 1

\* if self.debug_mode: self.debug_info[url] = PageDebugInfo(url=url)
DbgCreate(di, u) ==
  IF debug_mode THEN DictSet(di, u, PageDebugInfo) ELSE di

\* if self.debug_mode and url in self.debug_info:
\*     self.debug_info[url].errors.append(error_msg)
\* (the message is represented by the URL it names)
DbgError(di, u) ==
  IF debug_mode /\ u \in DOMAIN di
    THEN [di EXCEPT ![u].errors = Append(@, u)]
    ELSE di

\* the debug writes of the main page: main_page_crawled, emails_found,
\* contact_pages_found
DbgMain(di, u, emails, contact_pages) ==
  IF debug_mode
    THEN [di EXCEPT ![u].main_page_crawled = TRUE,
                    ![u].emails_found = @ \cup emails,
                    ![u].contact_pages_found = contact_pages]
    ELSE di

\* self.debug_info[url].contact_pages_crawled[contact_url] = success
DbgCrawled(di, u, c, success) ==
  IF debug_mode
    THEN [di EXCEPT ![u].contact_pages_crawled = DictSet(@, c, success)]
    ELSE di

\* self.debug_info[url].emails_found.update(contact_emails)
DbgEmails(di, u, emails) ==
  IF debug_mode
    THEN [di EXCEPT ![u].emails_found = @ \cup emails]
    ELSE di

\* the for loop over contact_pages: the next iteration, or the end
LoopPc(rest) ==
  IF rest = << >> THEN "done" ELSE "contact_loop"

Running ==
  { t \in Tasks : pc[t] \notin {"queued", "done"} }

(***************************************************************************)
(* A crawl_page task.                                                      *)
(***************************************************************************)

\* a pool thread takes the next queued task; crawl_page creates the debug
\* record of its url
StartTask(t) ==
  /\ mainpc = "crawl"
  /\ pc[t] = "queued"
  /\ \A s \in 1..(t - 1) : pc[s] # "queued"
  /\ Cardinality(Running) < max_workers
  /\ debug_info' = DbgCreate(debug_info, urls[t])
  /\ pc' = [pc EXCEPT ![t] = "fetch_main"]
  /\ UNCHANGED << mainpc, searchVars, result, debug_mode, tmp, todo, cur,
                  known, fetched, seed_results, found_emails, sites_visited,
                  outcomes, ok_fetches, contact_fetches, contact_merges >>

\* get_page_content(url) of the main page: the request succeeds, and the
\* increment loads sites_visited
FetchMainOk(t) ==
  /\ pc[t] = "fetch_main"
  /\ outcomes' = [outcomes EXCEPT ![urls[t]] = @ \cup {TRUE}]
  /\ ok_fetches' = ok_fetches + 1
  /\ tmp' = [tmp EXCEPT ![t] = sites_visited]
  /\ pc' = [pc EXCEPT ![t] = "inc_main"]
  /\ seed_results' = [seed_results EXCEPT ![t] = Append(@, TRUE)]
  /\ UNCHANGED << mainpc, searchVars, result, debug_mode, todo, cur, known,
                  fetched, found_emails, sites_visited, debug_info,
                  contact_fetches, contact_merges >>

\* a failed fetch of the main page that is tried again
FetchMainFailsRetry(t) ==
  /\ pc[t] = "fetch_main"
  /\ outcomes' = [outcomes EXCEPT ![urls[t]] = @ \cup {FALSE}]
  /\ debug_info' = DbgError(debug_info, urls[t])
  /\ pc' = [pc EXCEPT ![t] = "fetch_main"]
  /\ seed_results' = [seed_results EXCEPT ![t] = Append(@, FALSE)]
  /\ UNCHANGED << mainpc, searchVars, result, debug_mode, tmp, todo, cur,
                  known, fetched, found_emails, sites_visited, ok_fetches,
                  contact_fetches, contact_merges >>

\* get_page_content(url) of the main page: the request fails; crawl_page
\* returns
FetchMainFails(t) ==
  /\ pc[t] = "fetch_main"
  /\ outcomes' = [outcomes EXCEPT ![urls[t]] = @ \cup {FALSE}]
  /\ debug_info' = DbgError(debug_info, urls[t])
  /\ pc' = [pc EXCEPT ![t] = "done"]
  /\ seed_results' = [seed_results EXCEPT ![t] = Append(@, FALSE)]
  /\ UNCHANGED << mainpc, searchVars, result, debug_mode, tmp, todo, cur,
                  known, fetched, found_emails, sites_visited, ok_fetches,
                  contact_fetches, contact_merges >>

\* self.sites_visited += 1, the store
IncMain(t) ==
  /\ pc[t] = "inc_main"
  /\ sites_visited' = IncrementedValue(t)
  /\ tmp' = [tmp EXCEPT ![t] = 0]
  /\ pc' = [pc EXCEPT ![t] = "process_main"]
  /\ UNCHANGED << mainpc, searchVars, result, debug_mode, todo, cur, known,
                  fetched, seed_results, found_emails, debug_info, outcomes,
                  ok_fetches, contact_fetches, contact_merges >>

\* a main page whose emails are not merged before the contact pages
ProcessMainNoMerge(t) ==
  LET u == urls[t]
      emails == extract_emails(PageText(u))
  IN  /\ pc[t] = "process_main"
      /\ found_emails' = found_emails
      /\ \E contact_pages \in find_contact_pages(PageText(u)) :
           /\ debug_info' = DbgMain(debug_info, u, emails, contact_pages)
           /\ todo' = [todo EXCEPT ![t] = contact_pages]
           /\ pc' = [pc EXCEPT ![t] = LoopPc(contact_pages)]
      /\ known' = [known EXCEPT ![t] = DOMAIN found_emails']
      /\ UNCHANGED << mainpc, searchVars, result, debug_mode, tmp, cur,
                      fetched, seed_results, sites_visited, outcomes,
                      ok_fetches, contact_fetches, contact_merges >>

\* the main page: extract and merge its emails, find its contact pages
ProcessMain(t) ==
  LET u == urls[t]
      emails == extract_emails(PageText(u))
  IN  /\ pc[t] = "process_main"
      /\ found_emails' = MergeEmails(found_emails, u, emails)
      /\ \E contact_pages \in find_contact_pages(PageText(u)) :
           /\ debug_info' = DbgMain(debug_info, u, emails, contact_pages)
           /\ todo' = [todo EXCEPT ![t] = contact_pages]
           /\ pc' = [pc EXCEPT ![t] = LoopPc(contact_pages)]
      /\ known' = [known EXCEPT ![t] = DOMAIN found_emails']
      /\ UNCHANGED << mainpc, searchVars, result, debug_mode, tmp, cur,
                      fetched, seed_results, sites_visited, outcomes,
                      ok_fetches, contact_fetches, contact_merges >>

\* a skip that does not leave the contact page
ContactSkipStuck(t) ==
  /\ pc[t] = "contact_loop"
  /\ AlreadyFound(Head(todo[t]))
  /\ UNCHANGED << pc, todo >>
  /\ UNCHANGED << mainpc, searchVars, result, debug_mode, tmp, cur, known,
                  fetched, seed_results, crawlVars >>

\* the next contact_url is a key of found_emails: it is skipped
ContactSkip(t) ==
  /\ pc[t] = "contact_loop"
  /\ AlreadyFound(Head(todo[t]))
  /\ todo' = [todo EXCEPT ![t] = Tail(@)]
  /\ pc' = [pc EXCEPT ![t] = LoopPc(todo'[t])]
  /\ UNCHANGED << mainpc, searchVars, result, debug_mode, tmp, cur, known,
                  fetched, seed_results, crawlVars >>

\* the next contact_url is not a key of found_emails: it will be fetched
ContactTake(t) ==
  /\ pc[t] = "contact_loop"
  /\ ~AlreadyFound(Head(todo[t]))
  /\ todo' = [todo EXCEPT ![t] = Tail(@)]
  /\ cur' = [cur EXCEPT ![t] = Head(todo[t])]
  /\ pc' = [pc EXCEPT ![t] = "fetch_contact"]
  /\ UNCHANGED << mainpc, searchVars, result, debug_mode, tmp, known,
                  fetched, seed_results, crawlVars >>

\* get_page_content(contact_url): the request succeeds, and the increment
\* loads sites_visited
FetchContactOk(t) ==
  /\ pc[t] = "fetch_contact"
  /\ outcomes' = [outcomes EXCEPT ![cur[t]] = @ \cup {TRUE}]
  /\ ok_fetches' = ok_fetches + 1
  /\ contact_fetches' = [contact_fetches EXCEPT ![cur[t]] = @ + 1]
  /\ fetched' = [fetched EXCEPT ![t] = @ \cup {cur[t]}]
  /\ tmp' = [tmp EXCEPT ![t] = sites_visited]
  /\ pc' = [pc EXCEPT ![t] = "inc_contact"]
  /\ UNCHANGED << mainpc, searchVars, result, debug_mode, todo, cur, known,
                  seed_results, found_emails, sites_visited, debug_info,
                  contact_merges >>

\* a failed fetch of a contact page that ends crawl_page
FetchContactFailsAborts(t) ==
  /\ pc[t] = "fetch_contact"
  /\ outcomes' = [outcomes EXCEPT ![cur[t]] = @ \cup {FALSE}]
  /\ contact_fetches' = [contact_fetches EXCEPT ![cur[t]] = @ + 1]
  /\ fetched' = [fetched EXCEPT ![t] = @ \cup {cur[t]}]
  /\ debug_info' =
       DbgCrawled(DbgError(debug_info, cur[t]), urls[t], cur[t], FALSE)
  /\ cur' = [cur EXCEPT ![t] = None]
  /\ pc' = [pc EXCEPT ![t] = "done"]
  /\ UNCHANGED << mainpc, searchVars, result, debug_mode, tmp, todo, known,
                  seed_results, found_emails, sites_visited, ok_fetches,
                  contact_merges >>

\* get_page_content(contact_url): the request fails; the iteration ends
FetchContactFails(t) ==
  /\ pc[t] = "fetch_contact"
  /\ outcomes' = [outcomes EXCEPT ![cur[t]] = @ \cup {FALSE}]
  /\ contact_fetches' = [contact_fetches EXCEPT ![cur[t]] = @ + 1]
  /\ fetched' = [fetched EXCEPT ![t] = @ \cup {cur[t]}]
  /\ debug_info' =
       DbgCrawled(DbgError(debug_info, cur[t]), urls[t], cur[t], FALSE)
  /\ cur' = [cur EXCEPT ![t] = None]
  /\ pc' = [pc EXCEPT ![t] = LoopPc(todo[t])]
  /\ UNCHANGED << mainpc, searchVars, result, debug_mode, tmp, todo, known,
                  seed_results, found_emails, sites_visited, ok_fetches,
                  contact_merges >>

\* a contact fetch that does not count
IncContactSkipped(t) ==
  /\ pc[t] = "inc_contact"
  /\ tmp' = [tmp EXCEPT ![t] = 0]
  /\ pc' = [pc EXCEPT ![t] = "merge_contact"]
  /\ UNCHANGED << mainpc, searchVars, result, debug_mode, todo, cur, known,
                  fetched, seed_results, crawlVars >>

\* self.sites_visited += 1, the store, for a contact page
IncContact(t) ==
  /\ pc[t] = "inc_contact"
  /\ sites_visited' = IncrementedValue(t)
  /\ tmp' = [tmp EXCEPT ![t] = 0]
  /\ pc' = [pc EXCEPT ![t] = "merge_contact"]
  /\ UNCHANGED << mainpc, searchVars, result, debug_mode, todo, cur, known,
                  fetched, seed_results, found_emails, debug_info, outcomes,
                  ok_fetches, contact_fetches, contact_merges >>

\* a contact page merged under the key of the seed
MergeContactWrongKey(t) ==
  LET c == cur[t]
      contact_content == PageText(c)
      contact_emails == IF contact_content # << >>
                          THEN extract_emails(contact_content)
                          ELSE {}
  IN  /\ pc[t] = "merge_contact"
      /\ found_emails' = MergeEmails(found_emails, urls[t], contact_emails)
      /\ contact_merges' =
           [contact_merges EXCEPT ![c] = IF contact_emails # {} THEN @ + 1 ELSE @]
      /\ debug_info' =
           DbgEmails(DbgCrawled(debug_info, urls[t], c, TRUE), urls[t],
                     contact_emails)
      /\ cur' = [cur EXCEPT ![t] = None]
      /\ pc' = [pc EXCEPT ![t] = LoopPc(todo[t])]
      /\ UNCHANGED << mainpc, searchVars, result, debug_mode, tmp, todo,
                      known, fetched, seed_results, sites_visited, outcomes,
                      ok_fetches, contact_fetches >>

\* a contact page whose own contact links are followed
MergeContactFollows(t) ==
  LET c == cur[t]
      contact_content == PageText(c)
      contact_emails == IF contact_content # << >>
                          THEN extract_emails(contact_content)
                          ELSE {}
  IN  /\ pc[t] = "merge_contact"
      /\ found_emails' = MergeEmails(found_emails, c, contact_emails)
      /\ contact_merges' =
           [contact_merges EXCEPT ![c] = IF contact_emails # {} THEN @ + 1 ELSE @]
      /\ debug_info' =
           DbgEmails(DbgCrawled(debug_info, urls[t], c, TRUE), urls[t],
                     contact_emails)
      /\ cur' = [cur EXCEPT ![t] = None]
      /\ \E more \in find_contact_pages(contact_content) :
           /\ todo' = [todo EXCEPT ![t] = @ \o more]
           /\ pc' = [pc EXCEPT ![t] = LoopPc(todo'[t])]
      /\ UNCHANGED << mainpc, searchVars, result, debug_mode, tmp,
                      known, fetched, seed_results, sites_visited, outcomes,
                      ok_fetches, contact_fetches >>

\* the contact page was fetched: extract and merge its emails
MergeContact(t) ==
  LET c == cur[t]
      contact_content == PageText(c)
      contact_emails == IF contact_content # << >>
                          THEN extract_emails(contact_content)
                          ELSE {}
  IN  /\ pc[t] = "merge_contact"
      /\ found_emails' = MergeEmails(found_emails, c, contact_emails)
      /\ contact_merges' =
           [contact_merges EXCEPT ![c] = IF contact_emails # {} THEN @ + 1 ELSE @]
      /\ debug_info' =
           DbgEmails(DbgCrawled(debug_info, urls[t], c, TRUE), urls[t],
                     contact_emails)
      /\ cur' = [cur EXCEPT ![t] = None]
      /\ pc' = [pc EXCEPT ![t] = LoopPc(todo[t])]
      /\ UNCHANGED << mainpc, searchVars, result, debug_mode, tmp, todo,
                      known, fetched, seed_results, sites_visited, outcomes,
                      ok_fetches, contact_fetches >>

Next ==
  \/ \E n \in 0..MaxPages : CallOk(n)
  \/ \E n \in 0..MaxPages, e \in Failures : CallBuildFails(n, e)
  \/ \E items \in ItemLists \cup {<< >>} : SearchPage(items)
  \/ \E e \in Failures : SearchPageFails(e)
  \/ SearchReturn
  \/ NoUrls
  \/ Dispatch
  \/ Return
  \/ \E t \in Tasks : StartTask(t)
  \/ \E t \in Tasks : FetchMainOk(t)
  \/ \E t \in Tasks : FetchMainFails(t)
  \/ \E t \in Tasks : IncMain(t)
  \/ \E t \in Tasks : ProcessMain(t)
  \/ \E t \in Tasks : ContactSkip(t)
  \/ \E t \in Tasks : ContactTake(t)
  \/ \E t \in Tasks : FetchContactOk(t)
  \/ \E t \in Tasks : FetchContactFails(t)
  \/ \E t \in Tasks : IncContact(t)
  \/ \E t \in Tasks : MergeContact(t)

Spec == Init /\ [][Next]_vars

\* the steps of task t
TaskStep(t) ==
  /\ t \in Tasks
  /\ \/ StartTask(t)
     \/ FetchMainOk(t)
     \/ FetchMainFails(t)
     \/ IncMain(t)
     \/ ProcessMain(t)
     \/ ContactSkip(t)
     \/ ContactTake(t)
     \/ FetchContactOk(t)
     \/ FetchContactFails(t)
     \/ IncContact(t)
     \/ MergeContact(t)

\* Every pool thread is scheduled again and again and every request has a
\* timeout (timeout=10), so a task that can take a step takes one; the main
\* thread leaves the with block once it can.
FairSpec ==
  /\ Spec
  /\ \A t \in 1..MaxSeeds : WF_vars(TaskStep(t))
  /\ WF_vars(Return)

(***************************************************************************)
(* The same seeds crawled one after another by a single worker: crawl_page *)
(* run to its end on each seed in turn, as a function of found_emails and  *)
(* of the outcome ok[u] of fetching each URL.  A set of maps: one per      *)
(* order in which find_contact_pages may list the contact pages.           *)
(***************************************************************************)
RECURSIVE ContactLoopSeq(_, _, _)
ContactLoopSeq(fe, contact_pages, ok) ==
  IF contact_pages = << >>
    THEN fe
    ELSE LET c == Head(contact_pages)
             text == IF ok[c] THEN PageText(c) ELSE << >>
             fe2 == IF c \notin DOMAIN fe /\ ok[c] /\ text # << >>
                      THEN MergeEmails(fe, c, extract_emails(text))
                      ELSE fe
         IN  ContactLoopSeq(fe2, Tail(contact_pages), ok)

CrawlPageSeq(fe, u, ok) ==
  IF ~ok[u]
    THEN { fe }
    ELSE { ContactLoopSeq(MergeEmails(fe, u, extract_emails(PageText(u))),
                          contact_pages, ok) :
             contact_pages \in find_contact_pages(PageText(u)) }

RECURSIVE SeqRun(_, _, _)
SeqRun(fes, seeds, ok) ==
  IF seeds = << >>
    THEN fes
    ELSE SeqRun(UNION { CrawlPageSeq(fe, Head(seeds), ok) : fe \in fes },
                Tail(seeds), ok)

(***************************************************************************)
(* Shorthands of the properties.                                           *)
(***************************************************************************)
Returned == mainpc = "returned"

SearchOver == mainpc \in {"searched", "crawl", "returned", "raised"}

InContactFetch(t) == pc[t] \in {"fetch_contact", "inc_contact", "merge_contact"}

\* every URL fetched so far gave the same outcome each time
FixedOutcomes == \A u \in URLs : Cardinality(outcomes[u]) <= 1

\* the outcome functions that agree with the outcomes seen
Completions ==
  { ok \in [URLs -> BOOLEAN] : \A u \in URLs : outcomes[u] \subseteq {ok[u]} }

\* the contact pages of the page at u, as a set
ContactSet(u) ==
  { contact_links(PageText(u))[k] : k \in DOMAIN contact_links(PageText(u)) }

\* task t has fetched its seed page with success
SeedOk(t) == seed_results[t] = << TRUE >>

\* the fetch of its seed page by task t has failed
SeedFailed(t) == seed_results[t] = << FALSE >>

\* the emails of the seed page of task t, if any, are in found_emails
MainMerged(t) ==
  LET emails == extract_emails(PageText(urls[t]))
  IN  emails # {} =>
        /\ urls[t] \in DOMAIN found_emails
        /\ found_emails[urls[t]] = emails

\* the state of the seed of a task: 0 PENDING, 1 MAIN_FETCHED,
\* 2 CONTACT_LINKS_FOUND, 3 DONE
Rank(p) ==
  CASE p \in {"queued", "fetch_main"} -> 0
    [] p \in {"inc_main", "process_main"} -> 1
    [] p \in {"contact_loop", "fetch_contact", "inc_contact",
              "merge_contact"} -> 2
    [] p = "done" -> 3

\* task t's fetch of its seed page fails in this step
MainFailStep(t) ==
  /\ pc[t] = "fetch_main"
  /\ seed_results'[t] = Append(seed_results[t], FALSE)

\* task t's fetch of a contact page fails in this step
ContactFailStep(t) ==
  /\ pc[t] = "fetch_contact"
  /\ pc'[t] # "fetch_contact"
  /\ pc'[t] # "inc_contact"

\* task t takes a step
TaskMoved(t) ==
  << pc[t], tmp[t], todo[t], cur[t], fetched[t], seed_results[t] >>' #
    << pc[t], tmp[t], todo[t], cur[t], fetched[t], seed_results[t] >>

\* self.debug_info.get(u): the record of u, if there is one
RecordOf(u) ==
  IF u \in DOMAIN debug_info THEN << debug_info[u] >> ELSE << >>

\* task t stores the increment of a contact page fetch in this step
ContactCountStep(t) == pc[t] = "inc_contact" /\ pc'[t] = "merge_contact"

(***************************************************************************)
(* The properties.                                                         *)
(***************************************************************************)

\* C1: every key of found_emails is mapped to a non-empty set of emails,
\* in every reachable state; a page whose text holds no email is never a key.
C1_NoEmptyEntry ==
  /\ \A u \in DOMAIN found_emails :
       found_emails[u] # {} /\ extract_emails(PageText(u)) # {}
  /\ \A u \in DOMAIN result : result[u] # {}

\* C1, its case: a page without emails ("b") was fetched with success, as a
\* seed and as a contact page, the run is over, and other pages are keys.
C1_Witness ==
  /\ Returned
  /\ TRUE \in outcomes["b"]
  /\ "b" \in fetched[1]
  /\ \E t \in Tasks : urls[t] = "b"
  /\ DOMAIN found_emails = {"a", "c"}

\* C2: with a fixed fetch outcome per URL, the map search_and_crawl returns
\* after running the tasks on the pool equals, under every interleaving,
\* the map a single worker crawling the seeds one after another produces.
C2_PoolEqualsSequential ==
  (Returned /\ FixedOutcomes) =>
    \A ok \in Completions : SeqRun({EmptyMap}, urls, ok) = { result }

\* C2, its case: two seeds ran at the same time, both fetched the contact
\* page "c" they share, and the returned map has "c" among its keys.
C2_Witness ==
  /\ Returned
  /\ FixedOutcomes
  /\ Len(urls) = 2
  /\ contact_fetches["c"] = 2
  /\ DOMAIN result = {"a", "c"}

\* C3 as stated: across the run a contact page URL is fetched as a contact
\* page at most once and merged at most once.
C3_AtMostOnce ==
  \A c \in URLs : contact_fetches[c] <= 1 /\ contact_merges[c] <= 1

\* C3 as amended: a contact page URL is fetched as a contact page at most
\* once by each task, and merged at most once per fetch of it.
C3_AtMostOncePerTask ==
  \A c \in URLs :
    /\ contact_fetches[c] = Cardinality({ t \in Tasks : c \in fetched[t] })
    /\ contact_merges[c] <= contact_fetches[c]

\* C3, its case: two tasks have each fetched and merged the same contact
\* page.
C3_Witness ==
  /\ Returned
  /\ contact_fetches["c"] = 2
  /\ contact_merges["c"] = 2

\* C4: a task never fetches, as a contact page, a URL that was a key of
\* found_emails when the task ran find_contact_pages.
C4_NoRefetchOfKnownKey ==
  \A t \in Tasks :
    /\ fetched[t] \cap known[t] = {}
    /\ InContactFetch(t) => cur[t] \notin known[t]

\* C4, its case: a task whose seed page links to "c" found "c" already a
\* key when it discovered its contact pages, and has finished.
C4_Witness ==
  \E t \in Tasks :
    /\ pc[t] = "done"
    /\ urls[t] = "b"
    /\ "c" \in known[t]
    /\ TRUE \in outcomes["b"]

\* C5: when search_and_crawl returns, sites_visited (0 before the call)
\* equals the number of get_page_content calls that succeeded.
C5_NoLostIncrement ==
  Returned => sites_visited = ok_fetches

\* C6 as stated: the successful fetch of a contact page leaves
\* sites_visited unchanged.
C6_MainPagesOnly ==
  [][\A t \in Tasks : ContactCountStep(t) => sites_visited' = sites_visited]_vars

\* C6 as amended: the successful fetch of a contact page counts as that of
\* a main page does: it stores the value it loaded plus one; and with a
\* single seed sites_visited ends as the number of successful fetches, of
\* the main page and of the contact pages.
C6_ContactPagesCount ==
  /\ []((Returned /\ Len(urls) = 1) => sites_visited = ok_fetches)
  /\ [][\A t \in Tasks :
          ContactCountStep(t) => sites_visited' = tmp[t] + 1]_vars

\* C6, its case: a single seed whose main page and two contact pages were
\* all fetched with success.
C6_Witness ==
  /\ Returned
  /\ Len(urls) = 1
  /\ Cardinality(fetched[1]) = 2
  /\ sites_visited = 3

\* C7: when google_search returns an empty list, search_and_crawl returns
\* an empty map, no task is dispatched, no page is fetched, sites_visited
\* keeps its value (0) and google_pages_crawled is 0 plus the number of
\* search pages requested.
C7_EmptySearch ==
  (Returned /\ urls = << >>) =>
    /\ result = EmptyMap
    /\ pc = << >>
    /\ \A u \in URLs : outcomes[u] = {}
    /\ ok_fetches = 0
    /\ sites_visited = 0
    /\ google_pages_crawled = page_requests

\* C7, its case: two search pages were requested, none left a URL, and
\* search_and_crawl has returned.
C7_Witness ==
  /\ Returned
  /\ urls = << >>
  /\ page_requests = 2

\* C8: google_pages_crawled grows once per search page requested: by
\* num_pages when nothing fails, by k + 1 when the request of page k fails.
C8_OncePerPage ==
  /\ google_pages_crawled = page_requests
  /\ (SearchOver /\ failed_page = -1 /\ ~build_failed) =>
       google_pages_crawled = num_pages
  /\ failed_page >= 0 => google_pages_crawled = failed_page + 1

\* C8, its case: the request of page 1 failed after page 0 had returned
\* items.
C8_Witness ==
  /\ failed_page = 1
  /\ num_pages = 2
  /\ google_pages_crawled = 2

\* C9: when the request of a search page fails, google_search returns an
\* empty list, no exception leaves search_and_crawl, and search_and_crawl
\* returns an empty map without dispatching a task.
C9_FailedSearchIsEmpty ==
  failed_page >= 0 =>
    /\ mainpc # "raised"
    /\ urls = << >>
    /\ pc = << >>
    /\ Returned => result = EmptyMap

\* C10: search_and_crawl returns only when every task is done, one task
\* per URL of the search, and after the return no step changes
\* found_emails or the counters.
C10_ReturnAfterJoin ==
  /\ [](Returned =>
          /\ Len(pc) = Len(urls)
          /\ \A t \in Tasks : pc[t] = "done")
  /\ [][Returned =>
          UNCHANGED << found_emails, sites_visited, google_pages_crawled >>]_vars

\* C10, its case: search_and_crawl has returned after two tasks that
\* fetched and merged pages.
C10_Witness ==
  /\ Returned
  /\ Len(urls) = 2
  /\ ok_fetches >= 2
  /\ found_emails # EmptyMap

\* C11: a failed fetch never aborts the batch: no exception leaves the
\* tasks, every seed of the search is fetched, and a task goes through all
\* the contact pages of its seed (each is fetched by it, or was a key
\* when it came to it) whatever fetch failed before.
C11_FailureDoesNotAbort ==
  /\ pc # << >> => mainpc \in {"crawl", "returned"}
  /\ Returned =>
       \A t \in Tasks :
         /\ Len(seed_results[t]) = 1
         /\ SeedOk(t) =>
              ContactSet(urls[t]) \subseteq (fetched[t] \cup DOMAIN found_emails)

\* C11, its case: the fetch of the first seed failed, the second seed was
\* crawled all the same, one of its contact pages failed and the other
\* was fetched and merged.
C11_Witness ==
  /\ Returned
  /\ urls = << "c", "a" >>
  /\ SeedFailed(1)
  /\ SeedOk(2)
  /\ fetched[2] = {"b", "c"}
  /\ outcomes["b"] = {FALSE}
  /\ "c" \in DOMAIN found_emails

\* C12: with every fetch returning and the threads scheduled fairly, a
\* crawl that was dispatched ends with search_and_crawl returning; until
\* then some task can always take a step (no task waits for another).
C12_CrawlTerminates ==
  /\ (mainpc = "crawl") ~> Returned
  /\ []((mainpc = "crawl" /\ ~Join) =>
          \E t \in Tasks : ENABLED << TaskStep(t) >>_vars)

\* C12, its case: search_and_crawl has returned after two tasks that each
\* fetched their seed and contact pages.
C12_Witness ==
  /\ Returned
  /\ Len(urls) = 2
  /\ \A t \in Tasks : SeedOk(t) /\ fetched[t] # {}

\* C13: a task is at its contact pages only after its seed page was
\* fetched with success, the emails of the seed page merged and the contact
\* pages found on it; and the state of a seed only moves forward through
\* PENDING, MAIN_FETCHED, CONTACT_LINKS_FOUND, DONE.
C13_MainBeforeContacts ==
  /\ [](\A t \in Tasks :
          (Rank(pc[t]) = 2 \/ fetched[t] # {}) =>
            /\ SeedOk(t)
            /\ Rank(pc[t]) = 2 => MainMerged(t)
            /\ fetched[t] \subseteq ContactSet(urls[t])
            /\ InContactFetch(t) => cur[t] \in ContactSet(urls[t]))
  /\ [][\A t \in Tasks : Rank(pc'[t]) >= Rank(pc[t])]_vars

\* C13, its case: a task is fetching a contact page of "a" with the emails
\* of "a" merged, while the other task has not fetched its seed yet.
C13_Witness ==
  /\ Len(pc) = 2
  /\ urls[1] = "a"
  /\ pc[1] = "fetch_contact"
  /\ "a" \in DOMAIN found_emails
  /\ Rank(pc[2]) = 0

\* C14: a task fetches its seed page once; when that fetch fails the task
\* is done at once, with sites_visited and found_emails untouched, and it
\* never fetches a contact page.
C14_FailedSeedContributesNothing ==
  /\ [](\A t \in Tasks :
          /\ Len(seed_results[t]) <= 1
          /\ pc[t] = "done" => Len(seed_results[t]) = 1
          /\ SeedFailed(t) =>
               pc[t] = "done" /\ fetched[t] = {} /\ todo[t] = << >>)
  /\ [][\A t \in Tasks :
          /\ MainFailStep(t) =>
               /\ pc'[t] = "done"
               /\ UNCHANGED << sites_visited, found_emails, ok_fetches >>
          /\ pc[t] = "done" => pc'[t] = "done"]_vars

\* C14, its case: the fetch of one seed failed and the other seed was
\* crawled: the counter and the map hold the other seed's work only.
C14_Witness ==
  /\ Returned
  /\ Len(urls) = 2
  /\ SeedFailed(1)
  /\ SeedOk(2)
  /\ urls[1] \notin DOMAIN found_emails
  /\ sites_visited >= 1

\* C15: every URL fetched is a seed or a contact page found on a seed
\* page that was fetched with success; a task fetches no contact page but
\* those of its seed page.
C15_DepthOne ==
  /\ \A u \in URLs :
       outcomes[u] # {} =>
         \E t \in Tasks :
           \/ urls[t] = u
           \/ SeedOk(t) /\ u \in ContactSet(urls[t])
  /\ \A t \in Tasks : fetched[t] \subseteq ContactSet(urls[t])

\* C15, its case: the seed "b" and its contact page "c" were fetched with
\* success; "c" links to "a", which was never fetched.
C15_Witness ==
  /\ Returned
  /\ urls = << "b" >>
  /\ fetched[1] = {"c"}
  /\ "c" \in DOMAIN found_emails
  /\ "a" \in ContactSet("c")
  /\ outcomes["a"] = {}

\* C16: with debug_mode, the record of a seed is created, replaced and
\* appended to by the one task of that seed only: a step that changes the
\* record of u is a step of a task whose seed is u, and no other task of
\* the same seed has started.
C16_SingleWriter ==
  [][\A u \in URLs :
       RecordOf(u)' # RecordOf(u) =>
         \E t \in Tasks :
           /\ TaskMoved(t)
           /\ urls[t] = u
           /\ \A s \in Tasks \ {t} : urls[s] = u => pc[s] = "queued"]_vars

\* C17: with debug_mode, a fetch that fails while a task crawls its seed
\* appends an error to the record of that seed, for the seed page and for
\* a contact page alike; for a contact page the record's
\* contact_pages_crawled entry becomes False as well.
C17_ErrorInSeedRecord ==
  [][debug_mode =>
       \A t \in Tasks :
         /\ MainFailStep(t) =>
              debug_info'[urls[t]].errors =
                Append(debug_info[urls[t]].errors, urls[t])
         /\ ContactFailStep(t) =>
              /\ debug_info'[urls[t]].errors =
                   Append(debug_info[urls[t]].errors, cur[t])
              /\ cur[t] \in DOMAIN debug_info'[urls[t]].contact_pages_crawled
              /\ ~debug_info'[urls[t]].contact_pages_crawled[cur[t]]]_vars

\* C18: sites_visited and google_pages_crawled never decrease.
C18_CountersMonotonic ==
  [][/\ sites_visited' >= sites_visited
     /\ google_pages_crawled' >= google_pages_crawled]_vars

\* C19: with debug_mode and every URL answering the same way each time,
\* once the crawl is over the emails_found of the record of a seed whose
\* page was fetched are the emails of that page and of every contact page
\* of it that answers, the contact pages the task skipped included.
C19_RecordAggregatesContacts ==
  (debug_mode /\ FixedOutcomes /\ Returned) =>
    \A t \in Tasks :
      SeedOk(t) =>
        debug_info[urls[t]].emails_found =
          extract_emails(PageText(urls[t])) \cup
            UNION { extract_emails(PageText(c)) :
                      c \in { d \in ContactSet(urls[t]) : TRUE \in outcomes[d] } }

\* C20: every key u of found_emails maps to the emails of the page at u,
\* no key is ever removed, and the value of a key never changes.
C20_KeyMapsToOwnEmails ==
  /\ [](\A u \in DOMAIN found_emails :
          found_emails[u] = extract_emails(PageText(u)))
  /\ [][\A u \in DOMAIN found_emails :
          /\ u \in DOMAIN found_emails'
          /\ found_emails'[u] = found_emails[u]]_vars

\* C20, its case: "c" was merged as the seed of one task and as a contact
\* page of the other, next to the key "a", and holds its own two emails.
C20_Witness ==
  /\ Len(pc) = 2
  /\ \E t \in Tasks : urls[t] = "c" /\ SeedOk(t) /\ pc[t] = "done"
  /\ contact_merges["c"] >= 1
  /\ "a" \in DOMAIN found_emails
  /\ "c" \in DOMAIN found_emails
  /\ found_emails["c"] = {"e1", "e2"}

====
